---- MODULE Spec2Model ----
(***************************************************************************)
(* A model of src/interpreter.py: lex -> parse -> evaluate, driven by      *)
(* main().  Text is a sequence of one-character strings, a token is a      *)
(* record [type, value], an expression is an int, a name or a              *)
(* BinaryOperationNode, a runtime value is None, an int or a float.        *)
(* Floats are held as exact fractions num/den (IEEE rounding and the sign  *)
(* of zero are not represented).                                           *)
(***************************************************************************)
EXTENDS Integers, Sequences, FiniteSets, TLC

VARIABLES units, code, tokens, statements, idx, variables, stdout, raised, pc

vars == <<units, code, tokens, statements, idx, variables, stdout, raised, pc>>

(***************************************************************************)
(* Characters                                                              *)
(***************************************************************************)
Lower ==
  {"a","b","c","d","e","f","g","h","i","j","k","l","m",
   "n","o","p","q","r","s","t","u","v","w","x","y","z"}

Upper ==
  {"A","B","C","D","E","F","G","H","I","J","K","L","M",
   "N","O","P","Q","R","S","T","U","V","W","X","Y","Z"}

Digit == {"0","1","2","3","4","5","6","7","8","9"}

IdentStart == Lower \cup Upper \cup {"_"}

IdentChar == IdentStart \cup Digit

Whitespace == {" ", "\t", "\n"}

(***************************************************************************)
(* lex: the alternation of TOKEN_TYPES, tried in dictionary order at each  *)
(* scan position; re.finditer steps over a character no pattern matches.   *)
(* A pattern is a literal text, or (text empty) one character of first     *)
(* followed by the longest run of characters of more.                      *)
(***************************************************************************)
Literal(name, text) == [name |-> name, text |-> text, first |-> {}, more |-> {}]

Run(name, first, more) == [name |-> name, text |-> <<>>, first |-> first, more |-> more]

TOKEN_TYPES ==
  << Literal("VAR", <<"v","a","r">>),
     Literal("PRINT", <<"p","r","i","n","t">>),
     Run("IDENTIFIER", IdentStart, IdentChar),
     Literal("EQUALS", <<"=">>),
     Literal("COMMA", <<",">>),
     Literal("SEMICOLON", <<";">>),
     Run("NUMBER", Digit, Digit),
     Run("WHITESPACE", Whitespace, Whitespace),
     Literal("LPAREN", <<"(">>),
     Literal("RPAREN", <<")">>),
     Literal("PLUS", <<"+">>),
     Literal("MINUS", <<"-">>),
     Literal("TIMES", <<"*">>),
     Literal("DIVIDE", <<"/">>) >>

\* Whether the literal text lit occurs in s at position p (1-based).
StartsWith(s, p, lit) ==
  /\ p + Len(lit) - 1 <= Len(s)
  /\ \A j \in 1..Len(lit) : s[p + j - 1] = lit[j]

\* Length of the longest run of characters of class cls in s from position p.
RECURSIVE RunLen(_, _, _)
RunLen(s, p, cls) ==
  IF p <= Len(s) /\ s[p] \in cls THEN 1 + RunLen(s, p + 1, cls) ELSE 0

\* Length of the match of pattern pat at position p; 0 is no match.
MatchLen(pat, s, p) ==
  IF pat.text # <<>>
  THEN IF StartsWith(s, p, pat.text) THEN Len(pat.text) ELSE 0
  ELSE IF s[p] \in pat.first THEN 1 + RunLen(s, p + 1, pat.more) ELSE 0

Token(type_, value) == [type |-> type_, value |-> value]

\* The match at position p: the first alternative, in order from the k-th, that
\* matches there, as [type (match.lastgroup), len]; len = 0 if none matches.
RECURSIVE FirstMatch(_, _, _, _)
FirstMatch(order, k, s, p) ==
  IF k > Len(order) THEN [type |-> "", len |-> 0]
  ELSE LET n == MatchLen(order[k], s, p) IN
       IF n > 0 THEN [type |-> order[k].name, len |-> n]
       ELSE FirstMatch(order, k + 1, s, p)

RECURSIVE LexFrom(_, _, _)
LexFrom(s, p, acc) ==
  IF p > Len(s) THEN acc
  ELSE LET match == FirstMatch(TOKEN_TYPES, 1, s, p) IN
       IF match.len = 0 THEN LexFrom(s, p + 1, acc)
       ELSE IF match.type = "WHITESPACE" THEN LexFrom(s, p + match.len, acc)
       ELSE LexFrom(s, p + match.len,
                    Append(acc, Token(match.type, SubSeq(s, p, p + match.len - 1))))

lex(s) == LexFrom(s, 1, <<>>)

(***************************************************************************)
(* AST nodes.  An expression is a Python int, a Python str (a variable     *)
(* name) or a BinaryOperationNode; k is the Python type isinstance tests.  *)
(***************************************************************************)
IntExpr(n) == [k |-> "int", n |-> n]

StrExpr(s) == [k |-> "str", s |-> s]

BinaryOperationNode(left, operator, right) ==
  [k |-> "BinaryOperationNode", left |-> left, operator |-> operator, right |-> right]

VariableNode(name, value) == [node |-> "VariableNode", name |-> name, value |-> value]

PrintNode(expression) == [node |-> "PrintNode", expression |-> expression]

NoNode == [k |-> "none"]

\* int(value) of a run of decimal digits.
DigitVal(c) ==
  CASE c = "0" -> 0 [] c = "1" -> 1 [] c = "2" -> 2 [] c = "3" -> 3 [] c = "4" -> 4
    [] c = "5" -> 5 [] c = "6" -> 6 [] c = "7" -> 7 [] c = "8" -> 8 [] c = "9" -> 9

RECURSIVE IntOf(_)
IntOf(ds) ==
  IF ds = <<>> THEN 0
  ELSE 10 * IntOf(SubSeq(ds, 1, Len(ds) - 1)) + DigitVal(ds[Len(ds)])

(***************************************************************************)
(* Results of the parsers: exc is "none" on a normal return, else the      *)
(* class of the exception raised; text and pos are its message.  Indices   *)
(* i are Python's (0-based): Python's toks[i] is toks[i + 1] here.         *)
(***************************************************************************)
Returned(v) == [exc |-> "none", text |-> "", pos |-> 0, result |-> v]

Raised(exc, text, pos) == [exc |-> exc, text |-> text, pos |-> pos, result |-> NoNode]

OperatorTypes == {"PLUS", "MINUS", "TIMES", "DIVIDE"}

OperandTypes == {"NUMBER", "IDENTIFIER"}

\* Operand keeping the IDENTIFIER token itself instead of its text.
OperandKeepsToken(tok) ==
  IF tok.type = "NUMBER" THEN IntExpr(IntOf(tok.value))
  ELSE [k |-> "Token", type |-> tok.type, value |-> tok.value]

\* The operand a NUMBER or IDENTIFIER token stands for.
Operand(tok) == IF tok.type = "NUMBER" THEN IntExpr(IntOf(tok.value)) ELSE StrExpr(tok.value)

\* ExpressionLoop nesting to the right: left op (the rest of the chain).
RECURSIVE ExpressionLoopRightNested(_, _, _)
ExpressionLoopRightNested(toks, i, left) ==
  IF i < Len(toks) /\ toks[i + 1].type \in OperatorTypes
  THEN LET operator == toks[i + 1].value
           j        == i + 1
       IN  IF j >= Len(toks) \/ toks[j + 1].type \notin OperandTypes
           THEN Raised("SyntaxError", "Expected number or identifier after operator", j)
           ELSE LET rest == ExpressionLoopRightNested(toks, j + 1, Operand(toks[j + 1])) IN
                IF rest.exc # "none" THEN rest
                ELSE Returned(BinaryOperationNode(left, operator, rest.result))
  ELSE Returned(left)

\* The while loop of parse_expression, entered with cursor i and accumulated left.
RECURSIVE ExpressionLoop(_, _, _)
ExpressionLoop(toks, i, left) ==
  IF i < Len(toks) /\ toks[i + 1].type \in OperatorTypes
  THEN LET operator == toks[i + 1].value
           j        == i + 1
       IN  IF j >= Len(toks) \/ toks[j + 1].type \notin OperandTypes
           THEN Raised("SyntaxError", "Expected number or identifier after operator", j)
           ELSE ExpressionLoop(toks, j + 1,
                               BinaryOperationNode(left, operator, Operand(toks[j + 1])))
  ELSE Returned(left)

parse_expression(toks) ==
  IF Len(toks) = 0
  THEN Raised("IndexError", "list index out of range", 0)
  ELSE IF toks[1].type \in OperandTypes
       THEN ExpressionLoop(toks, 1, Operand(toks[1]))
       ELSE Raised("SyntaxError", "Expected number or identifier", 0)

\* while i < len(tokens) and tokens[i].type != type_: i += 1
RECURSIVE SkipUntil(_, _, _)
SkipUntil(toks, i, type_) ==
  IF i < Len(toks) /\ toks[i + 1].type # type_ THEN SkipUntil(toks, i + 1, type_) ELSE i

\* tokens[i:]
SliceFrom(toks, i) == SubSeq(toks, i + 1, Len(toks))

RECURSIVE ParseFrom(_, _, _)
ParseFrom(toks, i, stmts) ==
  IF ~(i < Len(toks)) THEN Returned(stmts)
  ELSE
    LET token == toks[i + 1] IN
    IF token.type = "VAR" THEN
      IF i + 1 >= Len(toks) \/ toks[i + 2].type # "IDENTIFIER"
      THEN Raised("SyntaxError", "Expected identifier after var", i + 1)
      ELSE
        LET name == toks[i + 2].value IN
        IF i + 2 >= Len(toks) \/ toks[i + 3].type # "EQUALS"
        THEN Raised("SyntaxError", "Expected = after name", i + 2)
        ELSE
          LET value == parse_expression(SliceFrom(toks, i + 3)) IN
          IF value.exc # "none" THEN value
          ELSE ParseFrom(toks, SkipUntil(toks, i + 3, "SEMICOLON") + 1,
                         Append(stmts, VariableNode(name, value.result)))
    ELSE IF token.type = "PRINT" THEN
      IF i + 1 >= Len(toks) \/ toks[i + 2].type # "LPAREN"
      THEN Raised("SyntaxError", "Expected ( after print", i + 1)
      ELSE
        LET expression == parse_expression(SliceFrom(toks, i + 2)) IN
        IF expression.exc # "none" THEN expression
        ELSE ParseFrom(toks,
                       SkipUntil(toks, SkipUntil(toks, i + 2, "RPAREN") + 1, "SEMICOLON") + 1,
                       Append(stmts, PrintNode(expression.result)))
    ELSE Raised("SyntaxError", "Unexpected token", i)

parse(toks) == ParseFrom(toks, 0, <<>>)

(***************************************************************************)
(* Runtime values: None, int, float (an exact fraction num/den, den > 0).  *)
(***************************************************************************)
None == [t |-> "None", num |-> 0, den |-> 1]

PyInt(n) == [t |-> "int", num |-> n, den |-> 1]

Abs(n) == IF n < 0 THEN -n ELSE n

RECURSIVE Gcd(_, _)
Gcd(a, b) == IF b = 0 THEN a ELSE Gcd(b, a % b)

PyFloat(n, d) ==
  LET g  == Gcd(Abs(n), Abs(d))
      sg == IF d < 0 THEN -1 ELSE 1
  IN  [t |-> "float", num |-> sg * (n \div g), den |-> sg * (d \div g)]

\* right == 0 in Python: None is not equal to 0; 0 and 0.0 are.
IsZero(v) == v.t # "None" /\ v.num = 0

(***************************************************************************)
(* Results of evaluation: exc is "none" on a normal return.                *)
(***************************************************************************)
Value(v) == [exc |-> "none", text |-> "", value |-> v]

Throw(exc, text) == [exc |-> exc, text |-> text, value |-> None]

\* left + right, left - right, left * right, left / right on Python values.
PyAdd(l, r) ==
  IF l.t = "None" \/ r.t = "None" THEN Throw("TypeError", "unsupported operand type(s) for +")
  ELSE IF l.t = "int" /\ r.t = "int" THEN Value(PyInt(l.num + r.num))
  ELSE Value(PyFloat(l.num * r.den + r.num * l.den, l.den * r.den))

PySub(l, r) ==
  IF l.t = "None" \/ r.t = "None" THEN Throw("TypeError", "unsupported operand type(s) for -")
  ELSE IF l.t = "int" /\ r.t = "int" THEN Value(PyInt(l.num - r.num))
  ELSE Value(PyFloat(l.num * r.den - r.num * l.den, l.den * r.den))

\* left * right computed as left * right with the operands' sum for int operands.
PyMulAsAdd(l, r) ==
  IF l.t = "None" \/ r.t = "None" THEN Throw("TypeError", "unsupported operand type(s) for *")
  ELSE IF l.t = "int" /\ r.t = "int" THEN Value(PyInt(l.num + r.num))
  ELSE Value(PyFloat(l.num * r.num, l.den * r.den))

PyMul(l, r) ==
  IF l.t = "None" \/ r.t = "None" THEN Throw("TypeError", "unsupported operand type(s) for *")
  ELSE IF l.t = "int" /\ r.t = "int" THEN Value(PyInt(l.num * r.num))
  ELSE Value(PyFloat(l.num * r.num, l.den * r.den))

\* Reached only with right != 0.
PyTrueDiv(l, r) ==
  IF l.t = "None" \/ r.t = "None" THEN Throw("TypeError", "unsupported operand type(s) for /")
  ELSE Value(PyFloat(l.num * r.den, l.den * r.num))

\* The operator dispatch of evaluate_expression, on evaluated operands.
ApplyOperator(operator, left, right) ==
  IF operator = <<"+">> THEN PyAdd(left, right)
  ELSE IF operator = <<"-">> THEN PySub(left, right)
  ELSE IF operator = <<"*">> THEN PyMul(left, right)
  ELSE IF operator = <<"/">> THEN
         IF IsZero(right) THEN Throw("RuntimeError", "Division by zero.")
         ELSE PyTrueDiv(left, right)
  ELSE Throw("SyntaxError", "Unknown operator")

(***************************************************************************)
(* Environment: variables is the dict, a function on the bound names.      *)
(***************************************************************************)
EmptyDict == [n \in {} |-> None]

\* set that leaves a name already bound as it is.
setKeepsFirst(vs, name, value) ==
  [n \in (DOMAIN vs) \cup {name} |-> IF n \in DOMAIN vs THEN vs[n] ELSE value]

set(vs, name, value) ==
  [n \in (DOMAIN vs) \cup {name} |-> IF n = name THEN value ELSE vs[n]]

get(vs, name) == IF name \in DOMAIN vs THEN vs[name] ELSE None

RECURSIVE evaluate_expression(_, _)
evaluate_expression(vs, expression) ==
  IF expression.k = "int" THEN Value(PyInt(expression.n))
  ELSE IF expression.k = "str" THEN Value(get(vs, expression.s))
  ELSE IF expression.k = "BinaryOperationNode" THEN
    LET left == evaluate_expression(vs, expression.left) IN
    IF left.exc # "none" THEN left
    ELSE LET right == evaluate_expression(vs, expression.right) IN
         IF right.exc # "none" THEN right
         ELSE ApplyOperator(expression.operator, left.value, right.value)
  ELSE Throw("RuntimeError", "Unknown expression type")

\* What one iteration of evaluate's loop computes before it binds or prints.
StatementValue(vs, statement) ==
  IF statement.node = "VariableNode" THEN evaluate_expression(vs, statement.value)
  ELSE IF statement.node = "PrintNode" THEN evaluate_expression(vs, statement.expression)
  ELSE Throw("RuntimeError", "Unknown statement type.")

\* str(expression) in the printed line: an int or a name prints as itself, a
\* BinaryOperationNode as the default object repr (its address is not modelled).
Format(expression) ==
  IF expression.k = "BinaryOperationNode"
  THEN [k |-> "object", cls |-> "BinaryOperationNode"]
  ELSE expression

PrintLine(expression, value) ==
  [kind |-> "print", expression |-> Format(expression), value |-> value]

ErrorLine(e) == [kind |-> "Error", exc |-> e.exc, text |-> e.text]

\* except (SyntaxError, RuntimeError) in main
Caught == {"SyntaxError", "RuntimeError"}

NoException == [exc |-> "none", text |-> ""]

(***************************************************************************)
(* Inputs.  A source text is written from a sequence of lexical units      *)
(* (units), laid out with whitespace the way main()'s text is.  main()     *)
(* fixes one such text; the model runs the same pipeline on a bounded      *)
(* family of them.  A unit is named by its text; Spelling gives its        *)
(* characters.                                                             *)
(***************************************************************************)
Spelling ==
  ("var" :> <<"v","a","r">>) @@
  ("flour" :> <<"f","l","o","u","r">>) @@
  ("=" :> <<"=">>) @@
  ("2" :> <<"2">>) @@
  (";" :> <<";">>) @@
  ("sugar" :> <<"s","u","g","a","r">>) @@
  ("1" :> <<"1">>) @@
  ("total" :> <<"t","o","t","a","l">>) @@
  ("+" :> <<"+">>) @@
  ("print" :> <<"p","r","i","n","t">>) @@
  ("(" :> <<"(">>) @@
  (")" :> <<")">>) @@
  ("3" :> <<"3">>) @@
  ("*" :> <<"*">>) @@
  ("4" :> <<"4">>) @@
  ("x" :> <<"x">>) @@
  ("5" :> <<"5">>) @@
  ("a" :> <<"a">>) @@
  ("b" :> <<"b">>) @@
  ("c" :> <<"c">>) @@
  ("10" :> <<"1","0">>) @@
  ("/" :> <<"/">>) @@
  ("0" :> <<"0">>) @@
  ("undefinedVar" :> <<"u","n","d","e","f","i","n","e","d","V","a","r">>) @@
  ("vars" :> <<"v","a","r","s">>) @@
  ("prints" :> <<"p","r","i","n","t","s">>) @@
  ("," :> <<",">>) @@
  ("-" :> <<"-">>)

\* Bounds of the generated inputs.
MaxOperands == 3

MaxUnits == 3

Operands == { "0", "2", "x" }

Operators == { <<"+">>, <<"-">>, <<"*">>, <<"/">> }

Names == { "x" }

\* The units that open a statement, up to its expression.
Heads == { <<"var", name, "=">> : name \in Names } \cup { <<"print", "(">> }

\* The units that close the statement a head opened.
Closing(head) == IF head[1] = "var" THEN <<";">> ELSE <<")", ";">>

\* What comes before an operand: an operator, which continues the expression, or
\* a head, which ends the statement before it and opens the next.
Links == Operators \cup Heads

\* The grammatical program whose i-th operand occurrence is operands[i], brought in
\* by links[i] (a head for i = 1), from occurrence i on, inside a statement head opened.
RECURSIVE ProgramFrom(_, _, _, _)
ProgramFrom(operands, links, i, head) ==
  IF i > Len(operands) THEN Closing(head)
  ELSE IF links[i] \in Heads
       THEN Closing(head) \o links[i] \o <<operands[i]>>
              \o ProgramFrom(operands, links, i + 1, links[i])
       ELSE links[i] \o <<operands[i]>> \o ProgramFrom(operands, links, i + 1, head)

Program(operands, links) ==
  links[1] \o <<operands[1]>> \o ProgramFrom(operands, links, 2, links[1])

\* Arbitrary short unit sequences, grammatical or not.
Vocabulary ==
  { "var", "print", "x", "vars", "prints", "1", "=", ",", ";", "(", ")", "+", "/" }

UnitTexts(n) == [1..n -> Vocabulary]

\* The text main() holds.
MainProgram ==
  << "var", "flour", "=", "2", ";", "var", "sugar", "=", "1", ";", "var", "total",
     "=", "flour", "+", "sugar", ";", "print", "(", "total", ")", ";" >>

\* A chain whose left fold and whose precedence reading differ.
PrecedenceProgram ==
  << "print", "(", "2", "+", "3", "*", "4", ")", ";" >>

DeclareAndPrint ==
  << "var", "x", "=", "5", ";", "print", "(", "x", ")", ";" >>

SumProgram ==
  << "var", "a", "=", "2", ";", "var", "b", "=", "1", ";", "var", "c", "=", "a", "+",
     "b", ";", "print", "(", "c", ")", ";" >>

DivideByZeroProgram ==
  << "print", "(", "10", "/", "0", ")", ";" >>

UndefinedProgram ==
  << "print", "(", "undefinedVar", ")", ";" >>

RedeclareProgram ==
  << "var", "x", "=", "1", ";", "var", "x", "=", "2", ";", "print", "(", "x", ")",
     ";" >>

\* An operand the expression parser does not consume.
StrayOperandProgram ==
  << "var", "x", "=", "1", "2", ";", "print", "(", "x", ")", ";" >>

\* A chain of two different operators over a bound identifier.
MixedChainProgram ==
  << "var", "x", "=", "3", ";", "print", "(", "2", "+", "x", "*", "4", ")", ";" >>

\* A grammatical program whose identifier begins with a keyword.
KeywordPrefixProgram ==
  << "var", "vars", "=", "2", ";", "print", "(", "vars", ")", ";" >>

Samples ==
  { MainProgram, PrecedenceProgram, DeclareAndPrint, SumProgram, DivideByZeroProgram,
    UndefinedProgram, RedeclareProgram, StrayOperandProgram, MixedChainProgram,
    KeywordPrefixProgram }

\* The whitespace main()'s text puts before unit v when it follows unit u (u = ""
\* at the start of the text): each statement on a line of its own, indented; no
\* space inside the parentheses nor before the semicolon; one space elsewhere.
Indent == <<"\n", " ", " ", " ", " ">>

Gap(u, v) ==
  IF u = "" \/ u = ";" THEN Indent
  ELSE IF v \in {";", "(", ")"} \/ u = "(" THEN <<>>
  ELSE <<" ">>

RECURSIVE Layout(_, _)
Layout(u, us) ==
  IF Len(us) = 0 THEN Gap(u, "")
  ELSE Gap(u, us[1]) \o Spelling[us[1]] \o Layout(us[1], SubSeq(us, 2, Len(us)))

\* The source text written from the units us.
Text(us) == Layout("", us)

(***************************************************************************)
(* main(): pc is the statement of main, or of evaluate's loop, that runs   *)
(* next; "returned", "reported" and "crashed" are the three ways it ends.  *)
(***************************************************************************)
Init ==
  /\ \/ \E n \in 1..MaxOperands :
          \E operands \in [1..n -> Operands], first \in Heads, rest \in [2..n -> Links] :
            units = Program(operands, [i \in 1..n |-> IF i = 1 THEN first ELSE rest[i]])
     \/ \E n \in 0..MaxUnits : units \in UnitTexts(n)
     \/ units \in Samples
  /\ code = Text(units)
  /\ tokens = <<>>
  /\ statements = <<>>
  /\ idx = 0
  /\ variables = EmptyDict
  /\ stdout = <<>>
  /\ raised = NoException
  /\ pc = "lex"

\* tokens = lex(code)
Lex ==
  /\ pc = "lex"
  /\ tokens' = lex(code)
  /\ pc' = "parse"
  /\ UNCHANGED <<units, code, statements, idx, variables, stdout, raised>>

\* statements = parse(tokens); env = Environment()
ParseReturn ==
  /\ pc = "parse"
  /\ LET r == parse(tokens) IN
       /\ r.exc = "none"
       /\ statements' = r.result
  /\ variables' = EmptyDict
  /\ idx' = 0
  /\ pc' = "evaluate"
  /\ UNCHANGED <<units, code, tokens, stdout, raised>>

\* parse raises an exception main catches: print(f'Error: {e}')
ParseRaise ==
  /\ pc = "parse"
  /\ LET r == parse(tokens) IN
       /\ r.exc \in Caught
       /\ raised' = [exc |-> r.exc, text |-> r.text]
       /\ stdout' = Append(stdout, ErrorLine(r))
  /\ pc' = "reported"
  /\ UNCHANGED <<units, code, tokens, statements, idx, variables>>

\* parse raises an exception main does not catch
ParseUncaught ==
  /\ pc = "parse"
  /\ LET r == parse(tokens) IN
       /\ r.exc \notin Caught \cup {"none"}
       /\ raised' = [exc |-> r.exc, text |-> r.text]
  /\ pc' = "crashed"
  /\ UNCHANGED <<units, code, tokens, statements, idx, variables, stdout>>

\* One iteration of evaluate's loop on a VariableNode.
ExecVariable ==
  /\ pc = "evaluate"
  /\ idx < Len(statements)
  /\ LET statement == statements[idx + 1]
         value     == StatementValue(variables, statement)
     IN  /\ statement.node = "VariableNode"
         /\ value.exc = "none"
         /\ variables' = set(variables, statement.name, value.value)
  /\ idx' = idx + 1
  /\ UNCHANGED <<units, code, tokens, statements, stdout, raised, pc>>

\* One iteration of evaluate's loop on a PrintNode.
ExecPrint ==
  /\ pc = "evaluate"
  /\ idx < Len(statements)
  /\ LET statement == statements[idx + 1]
         value     == StatementValue(variables, statement)
     IN  /\ statement.node = "PrintNode"
         /\ value.exc = "none"
         /\ stdout' = Append(stdout, PrintLine(statement.expression, value.value))
  /\ idx' = idx + 1
  /\ UNCHANGED <<units, code, tokens, statements, variables, raised, pc>>

\* The iteration raises an exception main catches.
ExecRaise ==
  /\ pc = "evaluate"
  /\ idx < Len(statements)
  /\ LET value == StatementValue(variables, statements[idx + 1]) IN
       /\ value.exc \in Caught
       /\ raised' = [exc |-> value.exc, text |-> value.text]
       /\ stdout' = Append(stdout, ErrorLine(value))
  /\ pc' = "reported"
  /\ UNCHANGED <<units, code, tokens, statements, idx, variables>>

\* The iteration raises an exception main does not catch.
ExecUncaught ==
  /\ pc = "evaluate"
  /\ idx < Len(statements)
  /\ LET value == StatementValue(variables, statements[idx + 1]) IN
       /\ value.exc \notin Caught \cup {"none"}
       /\ raised' = [exc |-> value.exc, text |-> value.text]
  /\ pc' = "crashed"
  /\ UNCHANGED <<units, code, tokens, statements, idx, variables, stdout>>

\* The loop of evaluate is exhausted; evaluate and main return.
EvaluateReturn ==
  /\ pc = "evaluate"
  /\ idx = Len(statements)
  /\ pc' = "returned"
  /\ UNCHANGED <<units, code, tokens, statements, idx, variables, stdout, raised>>

Next ==
  \/ Lex
  \/ ParseReturn
  \/ ParseRaise
  \/ ParseUncaught
  \/ ExecVariable
  \/ ExecPrint
  \/ ExecRaise
  \/ ExecUncaught
  \/ EvaluateReturn

Spec == Init /\ [][Next]_vars


(***************************************************************************)
(* The grammar of the language, as a recogniser on sequences of token      *)
(* kinds, and the reading of a source text's units it gives:               *)
(*   program   := statement*                                               *)
(*   statement := "var" IDENT "=" expr ";" | "print" "(" expr ")" ";"      *)
(*   expr      := (NUMBER | IDENT) (OP (NUMBER | IDENT))*                  *)
(***************************************************************************)
\* The kind of the lexical unit named u.
KindOf(u) ==
  LET sp == Spelling[u] IN
  IF u = "var" THEN "VAR"
  ELSE IF u = "print" THEN "PRINT"
  ELSE IF sp[1] \in IdentStart THEN "IDENTIFIER"
  ELSE IF sp[1] \in Digit THEN "NUMBER"
  ELSE CASE u = "=" -> "EQUALS" [] u = "," -> "COMMA" [] u = ";" -> "SEMICOLON"
         [] u = "(" -> "LPAREN" [] u = ")" -> "RPAREN" [] u = "+" -> "PLUS"
         [] u = "-" -> "MINUS" [] u = "*" -> "TIMES" [] u = "/" -> "DIVIDE"

KindsOf(us) == [i \in 1..Len(us) |-> KindOf(us[i])]

TypesOf(toks) == [i \in 1..Len(toks) |-> toks[i].type]

At(ks, i) == IF i >= 1 /\ i <= Len(ks) THEN ks[i] ELSE "END"

\* The position after the operator-operand pairs that start at position j.
RECURSIVE ChainEnd(_, _)
ChainEnd(ks, j) ==
  IF At(ks, j) \in OperatorTypes
  THEN IF At(ks, j + 1) \in OperandTypes THEN ChainEnd(ks, j + 2) ELSE 0
  ELSE j

\* The position after the expression that starts at position i; 0 if none does.
ExprEnd(ks, i) == IF At(ks, i) \in OperandTypes THEN ChainEnd(ks, i + 1) ELSE 0

\* The position after the statement that starts at position i; 0 if none does.
StatementEnd(ks, i) ==
  IF At(ks, i) = "VAR" /\ At(ks, i + 1) = "IDENTIFIER" /\ At(ks, i + 2) = "EQUALS"
  THEN LET e == ExprEnd(ks, i + 3) IN
       IF e # 0 /\ At(ks, e) = "SEMICOLON" THEN e + 1 ELSE 0
  ELSE IF At(ks, i) = "PRINT" /\ At(ks, i + 1) = "LPAREN"
  THEN LET e == ExprEnd(ks, i + 2) IN
       IF e # 0 /\ At(ks, e) = "RPAREN" /\ At(ks, e + 1) = "SEMICOLON" THEN e + 2 ELSE 0
  ELSE 0

RECURSIVE ConformsFrom(_, _)
ConformsFrom(ks, i) ==
  IF i > Len(ks) THEN TRUE
  ELSE LET e == StatementEnd(ks, i) IN e # 0 /\ ConformsFrom(ks, e)

ConformsToGrammar(ks) == ConformsFrom(ks, 1)

\* Whether an expression position of ks (after var IDENT =, after print (, or after
\* an operator) holds no number or identifier, the end of ks included.
BadExpressionPosition(ks) ==
  \E i \in 1..Len(ks) :
    \/ /\ ks[i] = "EQUALS" /\ At(ks, i - 1) = "IDENTIFIER" /\ At(ks, i - 2) = "VAR"
       /\ At(ks, i + 1) \notin OperandTypes
    \/ /\ ks[i] = "LPAREN" /\ At(ks, i - 1) = "PRINT"
       /\ At(ks, i + 1) \notin OperandTypes
    \/ /\ ks[i] \in OperatorTypes
       /\ At(ks, i + 1) \notin OperandTypes

\* How parse ended, read off the state: it returned, or it raised.
ParseRan == pc \notin {"lex", "parse"}

ParseReturned == pc \in {"evaluate", "returned"} \/ Len(statements) > 0

ParseFailed == pc \in {"reported", "crashed"} /\ Len(statements) = 0

\* One token per unit, of the unit's kind and with its full text.
ExpectedTokens(us) == [i \in 1..Len(us) |-> Token(KindOf(us[i]), Spelling[us[i]])]

(***************************************************************************)
(* C8: lex yields exactly one token per lexical unit of the text, in       *)
(* order, with the unit's kind and full text, and no whitespace token; an  *)
(* identifier that begins with var or print is one IDENTIFIER token.       *)
(***************************************************************************)
C8_OneTokenPerUnit == pc # "lex" => tokens = ExpectedTokens(units)

(***************************************************************************)
(* C5: when an expression position holds no number or identifier, the end  *)
(* of the tokens included, parsing fails with a SyntaxError and in no      *)
(* other way.                                                              *)
(***************************************************************************)
C5_SyntaxErrorOnBadExpression ==
  (ParseRan /\ BadExpressionPosition(TypesOf(tokens)))
     => (ParseFailed /\ pc = "reported" /\ raised.exc = "SyntaxError")

(***************************************************************************)
(* C9: parse returns normally only for token sequences that conform to     *)
(* the grammar: the scan to the terminator skips no token and accepts no   *)
(* statement whose terminator is missing.                                  *)
(***************************************************************************)
C9_ParseAcceptsOnlyGrammar ==
  (ParseRan /\ ParseReturned) => ConformsToGrammar(TypesOf(tokens))

(***************************************************************************)
(* Readings of the state the claims about evaluation share.                *)
(***************************************************************************)
ExprOf(statement) ==
  IF statement.node = "VariableNode" THEN statement.value ELSE statement.expression

\* evaluate raised while running statement idx + 1.
EvalFailed == pc \in {"reported", "crashed"} /\ Len(statements) > 0

\* The names the first k statements declare, and how many lines they print.
DeclaredNames(k) ==
  { statements[j].name : j \in { i \in 1..k : statements[i].node = "VariableNode" } }

PrintsBefore(k) == Cardinality({ i \in 1..k : statements[i].node = "PrintNode" })

\* The bindings the first k statements leave: each declared name bound to the value
\* of its last declaration, evaluated in the bindings left by the statements before it.
RECURSIVE BindingsAfter(_)
BindingsAfter(k) ==
  [ n \in DeclaredNames(k) |->
      LET decls == { i \in 1..k : statements[i].node = "VariableNode"
                                    /\ statements[i].name = n }
          j     == CHOOSE i \in decls : \A m \in decls : m <= i
      IN  evaluate_expression(BindingsAfter(j - 1), statements[j].value).value ]

\* An int, a name, or a BinaryOperationNode over + - * / with such operands.
RECURSIVE ClosedExpression(_)
ClosedExpression(e) ==
  \/ e.k = "int" /\ e.n \in Nat
  \/ e.k = "str" /\ Len(e.s) > 0
  \/ /\ e.k = "BinaryOperationNode"
     /\ e.operator \in { <<"+">>, <<"-">>, <<"*">>, <<"/">> }
     /\ ClosedExpression(e.left)
     /\ ClosedExpression(e.right)

(***************************************************************************)
(* C10: every statement parse produces is a VariableNode or a PrintNode,   *)
(* every expression an int, a name or a BinaryOperationNode over + - * /   *)
(* with such operands, and no run raises Unknown operator, Unknown         *)
(* expression type or Unknown statement type.                              *)
(***************************************************************************)
C10_DefensiveErrorsUnreachable ==
  /\ \A i \in 1..Len(statements) :
       /\ statements[i].node \in {"VariableNode", "PrintNode"}
       /\ ClosedExpression(ExprOf(statements[i]))
  /\ raised.text \notin
       {"Unknown operator", "Unknown expression type", "Unknown statement type."}

\* C10 witness: a declaration and a print of a binary expression have run.
C10_Witness ==
  /\ pc = "returned"
  /\ \E i, j \in 1..Len(statements) :
       /\ statements[i].node = "VariableNode"
       /\ statements[j].node = "PrintNode"
       /\ ExprOf(statements[j]).k = "BinaryOperationNode"
       /\ ExprOf(statements[j]).right.k = "str"

(***************************************************************************)
(* C7: after any statements have run without failure the Environment       *)
(* binds exactly the declared names, each to the value of its most recent  *)
(* declaration (evaluated in the Environment as it was just before it); a  *)
(* later declaration overwrites, and printing binds and changes nothing.   *)
(***************************************************************************)
C7_EnvironmentHoldsLastDeclarations ==
  pc \in {"evaluate", "returned"} =>
    /\ DOMAIN variables = DeclaredNames(idx)
    /\ \A n \in DeclaredNames(idx) : get(variables, n) = BindingsAfter(idx)[n]

\* C7 witness: a name was declared twice, with different values, and printed.
C7_Witness ==
  /\ pc = "returned"
  /\ \E i, j, k \in 1..Len(statements) :
       /\ i < j /\ j < k
       /\ statements[i].node = "VariableNode"
       /\ statements[j].node = "VariableNode"
       /\ statements[i].name = statements[j].name
       /\ statements[i].value.k = "int" /\ statements[j].value.k = "int"
       /\ statements[i].value.n # statements[j].value.n
       /\ statements[k].node = "PrintNode"
       /\ get(variables, statements[j].name) = PyInt(statements[j].value.n)

(***************************************************************************)
(* C6: when evaluation of the k-th statement raises an error, the output   *)
(* is exactly the lines of the print statements before k, in order, then   *)
(* a single Error line; no later statement runs and the bindings made      *)
(* before k stay.                                                          *)
(***************************************************************************)
C6_ErrorAbortsWithReport ==
  EvalFailed =>
    /\ Len(stdout) = PrintsBefore(idx) + 1
    /\ \A i \in 1..(Len(stdout) - 1) : stdout[i].kind = "print"
    /\ stdout[Len(stdout)].kind = "Error"
    /\ variables = BindingsAfter(idx)

\* Whether e holds a / whose right operand evaluates to zero where the bindings are vs.
RECURSIVE DividesByZero(_, _)
DividesByZero(vs, e) ==
  /\ e.k = "BinaryOperationNode"
  /\ \/ /\ e.operator = <<"/">>
        /\ evaluate_expression(vs, e.right).exc = "none"
        /\ IsZero(evaluate_expression(vs, e.right).value)
     \/ DividesByZero(vs, e.left)

(***************************************************************************)
(* C4: a binary expression with operator / whose right operand evaluates   *)
(* to zero fails with the Division by zero RuntimeError; its statement     *)
(* prints no line and binds nothing, and the run aborts there.             *)
(***************************************************************************)
C4_DivisionByZeroAborts ==
  /\ \A k \in 1..idx : ~DividesByZero(BindingsAfter(k - 1), ExprOf(statements[k]))
  /\ (idx < Len(statements) /\ DividesByZero(variables, ExprOf(statements[idx + 1])))
       => \/ pc = "evaluate"
          \/ /\ pc = "reported"
             /\ raised = [exc |-> "RuntimeError", text |-> "Division by zero."]
             /\ Len(stdout) = PrintsBefore(idx) + 1
             /\ stdout[Len(stdout)].kind = "Error"
             /\ variables = BindingsAfter(idx)

\* Whether e holds an identifier the bindings vs do not bind.
RECURSIVE MentionsUnbound(_, _)
MentionsUnbound(vs, e) ==
  \/ e.k = "str" /\ e.s \notin DOMAIN vs
  \/ e.k = "BinaryOperationNode"
       /\ (MentionsUnbound(vs, e.left) \/ MentionsUnbound(vs, e.right))

(***************************************************************************)
(* C3: a statement whose expression holds an unbound identifier, alone or  *)
(* as an operand of + - * /, completes without raising an error (a         *)
(* division by a zero right operand apart).                                *)
(***************************************************************************)
C3_UnboundNeverFails ==
  (EvalFailed /\ MentionsUnbound(variables, ExprOf(statements[idx + 1])))
     => raised.text = "Division by zero."

(***************************************************************************)
(* The left-to-right fold of a statement's operand chain, read from the    *)
(* units of the source text: ((o1 op1 o2) op2 o3) ...                      *)
(***************************************************************************)
\* The position at which the k-th statement of a grammatical text starts.
RECURSIVE NthStart(_, _, _)
NthStart(ks, i, k) == IF k = 1 THEN i ELSE NthStart(ks, StatementEnd(ks, i), k - 1)

\* The units o1 op1 o2 ... of the expression of the k-th statement.
ChainOfStatement(us, k) ==
  LET ks    == KindsOf(us)
      i     == NthStart(ks, 1, k)
      first == IF ks[i] = "VAR" THEN i + 3 ELSE i + 2
  IN  SubSeq(us, first, ExprEnd(ks, first) - 1)

\* The value an operand stands for where the bindings are vs.
OperandValue(vs, u) ==
  IF KindOf(u) = "NUMBER" THEN PyInt(IntOf(Spelling[u])) ELSE get(vs, Spelling[u])

\* acc folded with the operator-operand pairs of chain from position j on.
RECURSIVE FoldFrom(_, _, _, _)
FoldFrom(vs, chain, j, acc) ==
  IF j > Len(chain) \/ acc.exc # "none" THEN acc
  ELSE FoldFrom(vs, chain, j + 2,
                ApplyOperator(Spelling[chain[j]], acc.value, OperandValue(vs, chain[j + 1])))

LeftFold(vs, chain) == FoldFrom(vs, chain, 2, Value(OperandValue(vs, chain[1])))

(***************************************************************************)
(* C1: in a program that conforms to the grammar, the value each print     *)
(* emits is the strict left-to-right fold of its operand chain, with no    *)
(* precedence, each identifier standing for the value the Environment      *)
(* binds to it when the statement runs.                                    *)
(***************************************************************************)
C1_PrintIsLeftFold ==
  [][ ( /\ ConformsToGrammar(KindsOf(units))
        /\ pc = "evaluate"
        /\ Len(stdout') = Len(stdout) + 1
        /\ stdout'[Len(stdout')].kind = "print" )
      => LET fold == LeftFold(variables, ChainOfStatement(units, idx + 1)) IN
           /\ fold.exc = "none"
           /\ stdout'[Len(stdout')].value = fold.value ]_vars

\* C1 witness: a chain of three operands under two different operators, one
\* operand a bound identifier, has been printed.
C1_Witness ==
  /\ ConformsToGrammar(KindsOf(units))
  /\ pc = "returned"
  /\ Len(stdout) = 1
  /\ LET e == ExprOf(statements[Len(statements)]) IN
       /\ statements[Len(statements)].node = "PrintNode"
       /\ e.k = "BinaryOperationNode"
       /\ e.left.k = "BinaryOperationNode"
       /\ e.operator # e.left.operator
       /\ e.left.right.k = "str"
       /\ e.left.right.s \in DOMAIN variables

\* The run of print(2 + 3 * 4); has returned.
PrecedenceRun == units = PrecedenceProgram /\ pc = "returned"

(***************************************************************************)
(* C2, as stated: the run of print(2 + 3 * 4); prints the value 14.        *)
(***************************************************************************)
C2_Prints14 ==
  PrecedenceRun => Len(stdout) = 1 /\ stdout[1].kind = "print" /\ stdout[1].value = PyInt(14)

(***************************************************************************)
(* C2, as amended: the run of print(2 + 3 * 4); prints the value 20, the   *)
(* left fold (2 + 3) * 4.                                                  *)
(***************************************************************************)
C2_Prints20 ==
  PrecedenceRun => Len(stdout) = 1 /\ stdout[1].kind = "print" /\ stdout[1].value = PyInt(20)

\* C2 witness: that run has returned with one line printed.
C2_Witness == PrecedenceRun /\ Len(stdout) = 1

====
